---------------------------- MODULE Spec2Model ----------------------------
(***************************************************************************)
(* Model of the bevy-intersect-plane demo (src/src/main.rs): a scene of    *)
(* two planes, a light and a camera, and the Update system                 *)
(* my_cursor_system, which on a left click casts a ray from the cursor,    *)
(* intersects it with every plane and spawns a marker cube per hit.        *)
(*                                                                         *)
(* Numbers.  The program computes in f32.  The model computes in exact     *)
(* rationals <<numerator, denominator>> (denominator > 0, lowest terms):   *)
(* rounding error of f32 is not modelled.  The rotation angle TAU * 0.1    *)
(* (36 degrees) has irrational sine and cosine; the model uses the         *)
(* rational rotation with cosine 4/5 and sine 3/5 (36.87 degrees) in its   *)
(* place, and stores a rotation as its 3x3 matrix instead of a quaternion. *)
(*                                                                         *)
(* Engine.  Input<MouseButton>, Query::single, Window::cursor_position,    *)
(* Camera::viewport_to_world, Ray::intersect_plane and Ray::get_point are  *)
(* bevy's (0.11/0.12, the versions whose API main.rs uses); they are       *)
(* modelled by their documented behaviour at the line that calls them.     *)
(* A camera's projection is tabulated: cursor position i maps to rays[i].  *)
(***************************************************************************)
EXTENDS Integers, Sequences, FiniteSets

\* Option<T>: None, or Some(x); also the result of a query for at most one entity
None == <<>>
Some(x) == <<x>>
Unwrap(o) == o[1]

-----------------------------------------------------------------------------
(* f32 arithmetic, as exact rationals *)

Abs(i) == IF i < 0 THEN -i ELSE i

RECURSIVE Gcd(_, _)
Gcd(a, b) == IF b = 0 THEN a ELSE Gcd(b, a % b)

\* n/d over their common divisor g, with a positive denominator
Reduce(n, d, g) ==
    IF d < 0 THEN <<(-n) \div g, (-d) \div g>> ELSE <<n \div g, d \div g>>

\* the rational n/d in lowest terms with a positive denominator (d # 0)
Rat(n, d) == Reduce(n, d, Gcd(Abs(n), Abs(d)))

Zero == Rat(0, 1)
One == Rat(1, 1)
Half == Rat(1, 2)

\* The operations cancel common divisors before they multiply, to keep the
\* intermediate integers as small as the result allows.
AddOver(p, q, g) ==
    Rat(p[1] * (q[2] \div g) + q[1] * (p[2] \div g), (p[2] \div g) * q[2])
RAdd(p, q) == AddOver(p, q, Gcd(p[2], q[2]))
RNeg(p) == <<-p[1], p[2]>>
RSub(p, q) == RAdd(p, RNeg(q))
MulOver(p, q, g1, g2) ==
    Rat((p[1] \div g1) * (q[1] \div g2), (p[2] \div g2) * (q[2] \div g1))
RMul(p, q) == MulOver(p, q, Gcd(Abs(p[1]), q[2]), Gcd(Abs(q[1]), p[2]))
\* q # 0
RDiv(p, q) == RMul(p, Rat(q[2], q[1]))
RAbs(p) == <<Abs(p[1]), p[2]>>
LeOver(p, q, g) == p[1] * (q[2] \div g) <= q[1] * (p[2] \div g)
RLe(p, q) == LeOver(p, q, Gcd(p[2], q[2]))

\* floor of the square root of a natural number
ISqrt(n) == CHOOSE r \in 0..n : r * r <= n /\ n < (r + 1) * (r + 1)

\* f32::sqrt on the squares the model meets (a rational with square terms)
RSqrt(p) == Rat(ISqrt(p[1]), ISqrt(p[2]))

\* f32::EPSILON = 2^-23
EpsilonDen == 2 ^ 23

\* x > f32::EPSILON, for a rational x, without forming x[1] * 2^23
GtEpsilon(x) == x[1] > 0 /\ x[2] \div x[1] < EpsilonDen

-----------------------------------------------------------------------------
(* glam: Vec3, Vec2 and rotations *)

Vec3(x, y, z) == <<x, y, z>>
Vec3I(x, y, z, d) == <<Rat(x, d), Rat(y, d), Rat(z, d)>>
VecX == Vec3(One, Zero, Zero)
VecY == Vec3(Zero, One, Zero)
VecZ == Vec3(Zero, Zero, One)
VecZERO == Vec3(Zero, Zero, Zero)

VAdd(a, b) == <<RAdd(a[1], b[1]), RAdd(a[2], b[2]), RAdd(a[3], b[3])>>
VSub(a, b) == <<RSub(a[1], b[1]), RSub(a[2], b[2]), RSub(a[3], b[3])>>
VScale(a, k) == <<RMul(a[1], k), RMul(a[2], k), RMul(a[3], k)>>
dot(a, b) == RAdd(RAdd(RMul(a[1], b[1]), RMul(a[2], b[2])), RMul(a[3], b[3]))

VDiv(v, k) == <<RDiv(v[1], k), RDiv(v[2], k), RDiv(v[3], k)>>

\* Vec3::length
Length(v) == RSqrt(dot(v, v))

\* Vec3::normalize: v / v.length()
normalize(v) == VDiv(v, Length(v))

\* a rotation, as the rows of its matrix
Identity == <<VecX, VecY, VecZ>>

\* rotation * Vec3
Rotate(m, v) == <<dot(m[1], v), dot(m[2], v), dot(m[3], v)>>

Column(m, j) == <<m[1][j], m[2][j], m[3][j]>>

MatRow(r, b) == <<dot(r, Column(b, 1)), dot(r, Column(b, 2)), dot(r, Column(b, 3))>>

MatMul(a, b) == <<MatRow(a[1], b), MatRow(a[2], b), MatRow(a[3], b)>>

\* the rotation about a coordinate axis by the angle with cosine c and sine s
AxisRotation(axis, c, s) ==
    CASE axis = VecX -> <<Vec3(One, Zero, Zero), Vec3(Zero, c, RNeg(s)), Vec3(Zero, s, c)>>
      [] axis = VecY -> <<Vec3(c, Zero, s), Vec3(Zero, One, Zero), Vec3(RNeg(s), Zero, c)>>
      [] axis = VecZ -> <<Vec3(c, RNeg(s), Zero), Vec3(s, c, Zero), Vec3(Zero, Zero, One)>>

\* cosine and sine standing for those of TAU * 0.1
CosTenthTau == Rat(4, 5)
SinTenthTau == Rat(3, 5)

Transform(translation, rotation) ==
    [translation |-> translation, rotation |-> rotation]

\* Transform::from_xyz / Transform::from_translation
from_translation(p) == Transform(p, Identity)

\* Transform::rotate_axis: rotation = Quat::from_axis_angle(axis, angle) * rotation
rotate_axis(t, axis, c, s) ==
    [t EXCEPT !.rotation = MatMul(AxisRotation(axis, c, s), t.rotation)]


-----------------------------------------------------------------------------
(* the scene built by setup *)

\* MyPlane::new
MyPlane(size) == [size |-> size]

Rgb(r, g, b) == <<Rat(r, 100), Rat(g, 100), Rat(b, 100)>>

\* a plane entity: the MyPlane component and the PbrBundle's material and transform
PlaneEntity(entity, size, colour, transform) ==
    [entity |-> entity, plane |-> MyPlane(size), material |-> colour,
     transform |-> transform]

\* plane 1: MyPlane::new(3.0), default transform
Plane1 == PlaneEntity(1, Rat(3, 1), Rgb(60, 55, 30), from_translation(VecZERO))

\* plane 2: MyPlane::new(2.0) at (1.5, 0.5, -0.8), rotated about Z, then Y, then X
Plane2Transform ==
    LET t0 == from_translation(Vec3I(15, 5, -8, 10))
        t1 == rotate_axis(t0, VecZ, CosTenthTau, SinTenthTau)
        t2 == rotate_axis(t1, VecY, CosTenthTau, SinTenthTau)
    IN  rotate_axis(t2, VecX, CosTenthTau, SinTenthTau)

Plane2 == PlaneEntity(2, Rat(2, 1), Rgb(80, 75, 60), Plane2Transform)

\* the point light
Light ==
    [entity |-> 3, intensity |-> Rat(1500, 1), shadows_enabled |-> TRUE,
     transform |-> from_translation(Vec3I(4, 8, 4, 1))]

\* Ray { origin, direction }
Ray(origin, direction) == [origin |-> origin, direction |-> direction]

\* The rays the main camera (eye at (-2, 2.5, 5), looking at the origin) yields
\* for six cursor positions inside the window: each starts at the eye and has a
\* unit direction inside the view frustum.
MainCameraEye == Vec3I(-4, 5, 10, 2)

MainCameraRays ==
    << Ray(MainCameraEye, Vec3I(2, -3, -6, 7)),
       Ray(MainCameraEye, Vec3I(3, -2, -6, 7)),
       Ray(MainCameraEye, Vec3I(2, -10, -25, 27)),
       Ray(MainCameraEye, Vec3I(11, -8, -16, 21)),
       Ray(MainCameraEye, Vec3I(3, -4, -12, 13)),
       Ray(MainCameraEye, Vec3I(2, -10, -11, 15)) >>

\* A camera entity.  rays tabulates its projection (cursor position -> ray);
\* computed says whether the engine has computed its viewport size yet, which
\* it does in PostUpdate of a frame that has a window.
CameraEntity(entity, translation, rays) ==
    [entity |-> entity, translation |-> translation, rays |-> rays,
     computed |-> FALSE]

\* the camera spawned by setup, tagged MainCamera
MainCamera == CameraEntity(4, MainCameraEye, MainCameraRays)

\* Other worlds my_cursor_system may be run against: its queries take whatever
\* planes, camera and window the world holds.

\* a plane of the given side length lying flat (normal +Y) at height y
FlatPlane(entity, size, y) ==
    PlaneEntity(entity, size, Rgb(60, 55, 30), from_translation(Vec3(Zero, y, Zero)))

\* a plane of side length 4 standing upright (rotated a quarter turn about X,
\* normal +Z) at z = -2
UprightPlane(entity) ==
    PlaneEntity(entity, Rat(4, 1), Rgb(80, 75, 60),
                rotate_axis(from_translation(Vec3I(0, 0, -2, 1)), VecX, Zero, One))

WorldPlanes ==
    { <<FlatPlane(1, Rat(2, 1), Zero)>>,
      <<Plane1, Plane2>>,
      <<FlatPlane(1, Rat(2, 1), Zero), UprightPlane(2)>>,
      <<FlatPlane(1, Rat(2, 1), Rat(5, 1)), FlatPlane(2, Rat(3, 1), Zero)>> }

\* an orthographic camera at height 5 looking straight down: parallel rays
TopCameraEye == Vec3I(0, 5, 0, 1)

TopCameraRays ==
    << Ray(Vec3I(0, 5, 0, 1), Vec3I(0, -1, 0, 1)),
       Ray(Vec3I(3, 5, 3, 1), Vec3I(0, -1, 0, 1)),
       Ray(Vec3I(1, 5, 0, 1), Vec3I(0, -1, 0, 1)),
       Ray(Vec3I(1, 5, 1, 1), Vec3I(0, -1, 0, 1)),
       Ray(Vec3I(0, 10, -3, 2), Vec3I(0, -1, 0, 1)),
       Ray(Vec3I(4, 10, 1, 2), Vec3I(0, -1, 0, 1)) >>

\* a perspective camera at (0, 2, 4) looking level along -Z: rays that run
\* level, rise and fall
SideCameraEye == Vec3I(0, 2, 4, 1)

SideCameraRays ==
    << Ray(SideCameraEye, Vec3I(0, 0, -1, 1)),
       Ray(SideCameraEye, Vec3I(0, 3, -4, 5)),
       Ray(SideCameraEye, Vec3I(0, -3, -4, 5)),
       Ray(SideCameraEye, Vec3I(3, 0, -4, 5)),
       Ray(SideCameraEye, Vec3I(0, -5, -12, 13)),
       Ray(SideCameraEye, Vec3I(0, 4, -3, 5)) >>

WorldCameras ==
    { MainCamera,
      CameraEntity(4, TopCameraEye, TopCameraRays),
      CameraEntity(4, SideCameraEye, SideCameraRays) }

\* the primary window (spawned by DefaultPlugins); cursor is its cursor position
PrimaryWindow == [entity |-> 0, cursor |-> None]

\* the cursor positions the model distinguishes: one per tabulated ray
CursorPositions == 1..Len(MainCameraRays)

\* the marker cubes
CubeSize == Rat(1, 10)
Green == Rgb(10, 80, 20)
Red == Rgb(80, 10, 20)


-----------------------------------------------------------------------------
(* the state *)

VARIABLES
    pc,        \* the schedule about to run: "PreUpdate", "Update", "PostUpdate"
    mouse,     \* Input<MouseButton>: [pressed, just_pressed]
    window,    \* the primary window: None or Some(window)
    camera,    \* the MainCamera entity: None or Some(camera)
    planes,    \* the MyPlane entities, in iteration order
    light,     \* the point light
    markers,   \* the marker cubes spawned so far, in spawn order
    stdout,    \* the lines printed so far
    panicked,  \* a system panicked: the app is dead
    clicks,    \* left-button presses delivered so far
    frame      \* what my_cursor_system did in its latest run (its locals)

vars == <<pc, mouse, window, camera, planes, light, markers, stdout, panicked,
          clicks, frame>>

\* left-button presses the model delivers
MaxClicks == 2

MouseButtons == {"Left", "Right"}

MouseEvents ==
    {<<"none", "none">>} \cup ({"press", "release"} \X MouseButtons)

\* the frame record of a run that returned before casting a ray
NoFrame == [ran |-> FALSE, ray |-> None, hits |-> <<>>]

-----------------------------------------------------------------------------
(* bevy_input: Input<MouseButton> and the system that feeds it *)

\* Input::clear
InputClear(m) == [m EXCEPT !.just_pressed = {}]

\* Input::press
InputPress(m, b) ==
    IF b \in m.pressed THEN m
    ELSE [pressed |-> m.pressed \cup {b}, just_pressed |-> m.just_pressed \cup {b}]

\* Input::release
InputRelease(m, b) == [m EXCEPT !.pressed = @ \ {b}]

\* Input::just_pressed
just_pressed(m, b) == b \in m.just_pressed

\* mouse_button_input_system: clear, then apply the frame's event
ApplyMouseEvent(m, ev) ==
    CASE ev[1] = "press" -> InputPress(InputClear(m), ev[2])
      [] ev[1] = "release" -> InputRelease(InputClear(m), ev[2])
      [] OTHER -> InputClear(m)

-----------------------------------------------------------------------------
(* my_cursor_system *)

\* Window::cursor_position
cursor_position(w) == w.cursor

\* viewport_to_world without the check of the viewport size
viewport_to_world_always(cam, cursor) == Some(cam.rays[cursor])

\* Camera::viewport_to_world: None until the viewport size is computed
viewport_to_world(cam, cursor) ==
    IF cam.computed THEN Some(cam.rays[cursor]) ELSE None

\* window.cursor_position().and_then(|cursor| camera.viewport_to_world(.., cursor))
CastRay(w, cam) ==
    IF cursor_position(w) = None THEN None
    ELSE viewport_to_world(cam, Unwrap(cursor_position(w)))

\* the distance solving dot(origin + distance * direction - plane_origin, normal) = 0
PlaneDistance(ray, plane_origin, plane_normal, denominator) ==
    RDiv(dot(VSub(plane_origin, ray.origin), plane_normal), denominator)

\* intersect_plane, from its denominator on, accepting any signed distance
AnyDistance(ray, plane_origin, plane_normal, denominator) ==
    IF GtEpsilon(RAbs(denominator))
    THEN Some(PlaneDistance(ray, plane_origin, plane_normal, denominator))
    ELSE None

\* intersect_plane accepting any signed distance
intersect_plane_any_distance(ray, plane_origin, plane_normal) ==
    AnyDistance(ray, plane_origin, plane_normal, dot(plane_normal, ray.direction))

\* if distance > f32::EPSILON { return Some(distance); }
InFront(distance) == IF GtEpsilon(distance) THEN Some(distance) ELSE None

\* intersect_plane, from its denominator on
IntersectDenominator(ray, plane_origin, plane_normal, denominator) ==
    IF GtEpsilon(RAbs(denominator))
    THEN InFront(PlaneDistance(ray, plane_origin, plane_normal, denominator))
    ELSE None

\* Ray::intersect_plane: the distance along the ray, if the ray is not parallel
\* to the plane and the plane is in front of the ray's origin (both tested
\* against f32::EPSILON; no ray of the model yields exactly f32::EPSILON)
intersect_plane(ray, plane_origin, plane_normal) ==
    IntersectDenominator(ray, plane_origin, plane_normal,
                         dot(plane_normal, ray.direction))

\* get_point stepping against the direction
get_point_backwards(ray, distance) ==
    VSub(ray.origin, VScale(ray.direction, distance))

\* Ray::get_point
get_point(ray, distance) == VAdd(ray.origin, VScale(ray.direction, distance))

\* .map(|distance| ray.get_point(distance))
MapGetPoint(ray, distance) ==
    IF distance = None THEN None ELSE Some(get_point(ray, Unwrap(distance)))

\* Intersection taking the plane's normal along its local Z axis
IntersectionNormalZ(ray, transform) ==
    MapGetPoint(ray, intersect_plane(ray, transform.translation,
                                     normalize(Rotate(transform.rotation, VecZ))))

\* let plane_origin = transform.translation;
\* let plane_normal = (transform.rotation * Vec3::Y).normalize();
\* ray.intersect_plane(plane_origin, plane_normal).map(|distance| ray.get_point(distance))
Intersection(ray, transform) ==
    MapGetPoint(ray, intersect_plane(ray, transform.translation,
                                     normalize(Rotate(transform.rotation, VecY))))

\* Vec2::new(x_projection, z_projection) / plane.size, with
\* x_projection = local_intersection.dot(x_axis) and likewise z_projection
Project(local_intersection, x_axis, z_axis, size) ==
    <<RDiv(dot(local_intersection, x_axis), size),
      RDiv(dot(local_intersection, z_axis), size)>>

\* LocalIntersection projecting on the world axes instead of the plane's
LocalIntersectionWorldAxes(world_intersection, transform, plane) ==
    Project(VSub(world_intersection, transform.translation), VecX, VecZ, plane.size)

\* the projection of the world intersection on the plane's axes, over its size:
\* local_intersection = world_intersection - plane_origin, projected on
\* x_axis = (transform.rotation * Vec3::X).normalize() and z_axis likewise
LocalIntersection(world_intersection, transform, plane) ==
    Project(VSub(world_intersection, transform.translation),
            normalize(Rotate(transform.rotation, VecX)),
            normalize(Rotate(transform.rotation, VecZ)),
            plane.size)

\* WithinBounds with the edges excluded
WithinBoundsStrict(local) ==
    /\ ~RLe(Half, RAbs(local[1]))
    /\ ~RLe(Half, RAbs(local[2]))

\* local_intersection.x.abs() <= 0.5 && local_intersection.y.abs() <= 0.5
WithinBounds(local) == RLe(RAbs(local[1]), Half) /\ RLe(RAbs(local[2]), Half)

\* local_intersection + Vec2::splat(0.5)
SurfaceCoordinates(local) == <<RAdd(local[1], Half), RAdd(local[2], Half)>>

\* {:.2}: a value in [0, 1] rounded to hundredths, ties to even
Fmt2(q) ==
    LET n == q[1] * 100
        fl == n \div q[2]
        rem2 == 2 * (n - fl * q[2])
    IN  IF rem2 > q[2] \/ (rem2 = q[2] /\ fl % 2 = 1) THEN fl + 1 ELSE fl

\* "{entity:?}: hit at {x:.2},{y:.2} within surface"
HitLine(entity, surface) ==
    [entity |-> entity, x |-> Fmt2(surface[1]), y |-> Fmt2(surface[2])]

\* Marker left at the default transform
MarkerUntransformed(colour, world_intersection) ==
    [cube |-> CubeSize, material |-> colour, transform |-> from_translation(VecZERO)]

\* the PbrBundle of a marker cube
Marker(colour, world_intersection) ==
    [cube |-> CubeSize, material |-> colour,
     transform |-> from_translation(world_intersection)]

\* the two branches of the bounds test: the locals, the marker spawned and the
\* line printed
Classify(p, world_intersection, local) ==
    IF WithinBounds(local)
    THEN [entity |-> p.entity, intersection |-> Some(world_intersection),
          local |-> Some(local), within |-> TRUE,
          spawn |-> <<Marker(Green, world_intersection)>>,
          print |-> <<HitLine(p.entity, SurfaceCoordinates(local))>>]
    ELSE [entity |-> p.entity, intersection |-> Some(world_intersection),
          local |-> Some(local), within |-> FALSE,
          spawn |-> <<Marker(Red, world_intersection)>>,
          print |-> <<>>]

\* if let Some(world_intersection) = intersection { .. }
IfIntersection(p, intersection) ==
    IF intersection = None
    THEN [entity |-> p.entity, intersection |-> None, local |-> None,
          within |-> FALSE, spawn |-> <<>>, print |-> <<>>]
    ELSE Classify(p, Unwrap(intersection),
                  LocalIntersection(Unwrap(intersection), p.transform, p.plane))

\* one iteration of the loop over q_plane
PlaneHit(ray, p) == IfIntersection(p, Intersection(ray, p.transform))

\* HitAll stopping after the first plane
HitAllFirst(ray, ps) == [i \in 1..(IF Len(ps) > 0 THEN 1 ELSE 0) |-> PlaneHit(ray, ps[i])]

\* for (entity, transform, plane) in q_plane.iter()
HitAll(ray, ps) == [i \in 1..Len(ps) |-> PlaneHit(ray, ps[i])]

RECURSIVE Spawned(_, _)
Spawned(hits, i) ==
    IF i > Len(hits) THEN <<>> ELSE hits[i].spawn \o Spawned(hits, i + 1)

RECURSIVE Printed(_, _)
Printed(hits, i) ==
    IF i > Len(hits) THEN <<>> ELSE hits[i].print \o Printed(hits, i + 1)

\* Spawn dropping the markers of earlier clicks
SpawnReplace(ms, new) == IF new = <<>> THEN ms ELSE new

\* commands.spawn
Spawn(ms, new) == ms \o new

\* Clicked reading Input::pressed
ClickedHeld(m) == "Left" \in m.pressed

\* if !mouse.just_pressed(MouseButton::Left) { return; }
Clicked(m) == just_pressed(m, "Left")

\* q_camera.single() and q_window.single() panic unless there is exactly one
SinglePanics == camera = None \/ window = None

-----------------------------------------------------------------------------
(* the frame loop *)

\* setup: the entities it spawns
setup == [planes |-> <<Plane1, Plane2>>, light |-> Light, camera |-> MainCamera]

\* after App::new() ... add_systems(Startup, setup): the window and the scene
Init ==
    /\ pc = "PreUpdate"
    /\ mouse = [pressed |-> {}, just_pressed |-> {}]
    /\ window = Some(PrimaryWindow)
    /\ camera = Some(setup.camera)
    /\ planes = setup.planes
    /\ light = setup.light
    /\ markers = <<>>
    /\ stdout = <<>>
    /\ panicked = FALSE
    /\ clicks = 0
    /\ frame = NoFrame

\* PreUpdate: the window's cursor position and the mouse button input are
\* brought up to date from the frame's events
InputSystem ==
    /\ pc = "PreUpdate"
    /\ ~panicked
    /\ \E ev \in MouseEvents, cur \in {None} \cup {Some(c) : c \in CursorPositions} :
        /\ ev = <<"press", "Left">> => clicks < MaxClicks
        /\ mouse' = ApplyMouseEvent(mouse, ev)
        /\ clicks' = IF ev = <<"press", "Left">> THEN clicks + 1 ELSE clicks
        /\ window' = IF window = None THEN None
                     ELSE Some([Unwrap(window) EXCEPT !.cursor = cur])
    /\ pc' = "Update"
    /\ UNCHANGED <<camera, planes, light, markers, stdout, panicked, frame>>

\* the loop's effects: the markers spawned and the lines printed
SpawnHits(ray, hits) ==
    /\ markers' = Spawn(markers, Spawned(hits, 1))
    /\ stdout' = stdout \o Printed(hits, 1)
    /\ frame' = [ran |-> TRUE, ray |-> Some(ray), hits |-> hits]
    /\ UNCHANGED panicked

\* if let Some(ray) = .. { for .. in q_plane.iter() { .. } }
IfRay(ray) ==
    IF ray = None
    THEN /\ frame' = [ran |-> TRUE, ray |-> None, hits |-> <<>>]
         /\ UNCHANGED <<markers, stdout, panicked>>
    ELSE SpawnHits(Unwrap(ray), HitAll(Unwrap(ray), planes))

\* Update: my_cursor_system
my_cursor_system ==
    /\ pc = "Update"
    /\ ~panicked
    /\ IF ~Clicked(mouse)
       THEN /\ frame' = NoFrame
            /\ UNCHANGED <<markers, stdout, panicked>>
       ELSE IF SinglePanics
       THEN /\ panicked' = TRUE
            /\ frame' = [ran |-> TRUE, ray |-> None, hits |-> <<>>]
            /\ UNCHANGED <<markers, stdout>>
       ELSE IfRay(CastRay(Unwrap(window), Unwrap(camera)))
    /\ pc' = "PostUpdate"
    /\ UNCHANGED <<mouse, window, camera, planes, light, clicks>>

\* PostUpdate: the engine's camera_system computes the camera's viewport size
\* from its window
CameraSystem ==
    /\ pc = "PostUpdate"
    /\ ~panicked
    /\ camera' = IF camera # None /\ window # None
                 THEN Some([Unwrap(camera) EXCEPT !.computed = TRUE])
                 ELSE camera
    /\ pc' = "PreUpdate"
    /\ UNCHANGED <<mouse, window, planes, light, markers, stdout, panicked,
                   clicks, frame>>

Next == InputSystem \/ my_cursor_system \/ CameraSystem

Spec == Init /\ [][Next]_vars

\* my_cursor_system against any of the worlds above, with or without a camera
\* and a window
InitWorld ==
    /\ pc = "PreUpdate"
    /\ mouse = [pressed |-> {}, just_pressed |-> {}]
    /\ window \in {None, Some(PrimaryWindow)}
    /\ camera \in {None} \cup {Some(c) : c \in WorldCameras}
    /\ planes \in WorldPlanes
    /\ light = Light
    /\ markers = <<>>
    /\ stdout = <<>>
    /\ panicked = FALSE
    /\ clicks = 0
    /\ frame = NoFrame

SpecWorld == InitWorld /\ [][Next]_vars


-----------------------------------------------------------------------------
(* The properties.  They restate the geometry from the stored state: a      *)
(* plane's axes are read off its rotation matrix (its columns), and the     *)
(* bounds test is written out on numerators and denominators.               *)

XAxisOf(p) == Column(p.transform.rotation, 1)
NormalOf(p) == Column(p.transform.rotation, 2)
ZAxisOf(p) == Column(p.transform.rotation, 3)
OriginOf(p) == p.transform.translation

\* the ray runs parallel to the plane of p
Parallel(ray, p) == dot(ray.direction, NormalOf(p))[1] = 0

\* the signed distance t solving dot(origin + t*dir - plane_origin, normal) = 0
DistanceTo(ray, p) ==
    RDiv(dot(VSub(OriginOf(p), ray.origin), NormalOf(p)),
         dot(ray.direction, NormalOf(p)))

\* (u, v) of a world point for plane p
UOf(point, p) == RDiv(dot(VSub(point, OriginOf(p)), XAxisOf(p)), p.plane.size)
VOf(point, p) == RDiv(dot(VSub(point, OriginOf(p)), ZAxisOf(p)), p.plane.size)

\* |q| <= 1/2 and |q| = 1/2, on the terms of q
AtMostHalf(q) == 2 * Abs(q[1]) <= q[2]
ExactlyHalf(q) == 2 * Abs(q[1]) = q[2]

\* the latest run of my_cursor_system cast a ray and looped over every plane
RayCast == frame.ray # None /\ Len(frame.hits) = Len(planes)

\* C1: for every plane for which an intersection point is produced, the hit is
\* classified within bounds (green marker, a line printed) if and only if
\* |u| <= 0.5 and |v| <= 0.5, bounds included.
C1_InclusiveBounds ==
    frame.ray # None =>
        /\ Len(frame.hits) = Len(planes)
        /\ \A i \in 1..Len(planes) :
            LET h == frame.hits[i]
                p == planes[i]
            IN  h.intersection # None =>
                    LET inside == /\ AtMostHalf(UOf(Unwrap(h.intersection), p))
                                  /\ AtMostHalf(VOf(Unwrap(h.intersection), p))
                    IN  /\ h.within <=> inside
                        /\ Len(h.spawn) = 1
                        /\ h.spawn[1].material = (IF inside THEN Green ELSE Red)
                        /\ Len(h.print) = (IF inside THEN 1 ELSE 0)

\* a hit exactly on a plane's edge (|u| = 0.5), classified within bounds
C1_Witness ==
    /\ RayCast
    /\ \E i \in 1..Len(planes) :
        /\ frame.hits[i].intersection # None
        /\ ExactlyHalf(UOf(Unwrap(frame.hits[i].intersection), planes[i]))
        /\ AtMostHalf(VOf(Unwrap(frame.hits[i].intersection), planes[i]))
        /\ frame.hits[i].within
        /\ frame.hits[i].spawn[1].material = Green


\* the step is a run of my_cursor_system
CursorSystemStep == pc = "Update" /\ pc' = "PostUpdate"

\* the markers a step added
NewMarkers == {k \in 1..Len(markers') : k > Len(markers)}

\* point lies in the (unbounded) plane of p
OnPlaneOf(point, p) == dot(VSub(point, OriginOf(p)), NormalOf(p))[1] = 0

\* C2: for a click whose ray runs parallel to a plane (zero component along its
\* normal) no intersection point is produced and no marker is spawned for that
\* plane; every plane is still tested, and each marker the click adds lies in a
\* plane the ray is not parallel to.
C2_ParallelNoMarker ==
    [][ (CursorSystemStep /\ frame'.ray # None) =>
            LET ray == Unwrap(frame'.ray)
                crossing == {i \in 1..Len(planes) : ~Parallel(ray, planes[i])}
            IN  /\ Len(frame'.hits) = Len(planes)
                /\ \A i \in 1..Len(planes) :
                    Parallel(ray, planes[i]) =>
                        /\ frame'.hits[i].intersection = None
                        /\ frame'.hits[i].spawn = <<>>
                /\ Cardinality(NewMarkers) <= Cardinality(crossing)
                /\ \A k \in NewMarkers :
                    \E i \in crossing :
                        OnPlaneOf(markers'[k].transform.translation, planes[i])
      ]_vars

\* a click whose ray is parallel to one plane and marks another
C2_Witness ==
    /\ RayCast
    /\ markers # <<>>
    /\ \E i, j \in 1..Len(planes) :
        /\ Parallel(Unwrap(frame.ray), planes[i])
        /\ frame.hits[i].intersection = None
        /\ frame.hits[j].spawn # <<>>
        /\ frame.hits[j].spawn[1] = markers[Len(markers)]

\* the point at signed distance t along the ray
PointAt(ray, t) == VAdd(ray.origin, VScale(ray.direction, t))

\* C3, as claimed: when a plane lies behind the ray's origin (t < 0) and the ray
\* is not parallel to it, the intersection point origin + t*dir is still
\* produced and a marker is spawned for it.
C3_NegativeDistanceAccepted ==
    frame.ray # None =>
        \A i \in 1..Len(frame.hits) :
            LET ray == Unwrap(frame.ray)
            IN  (~Parallel(ray, planes[i]) /\ DistanceTo(ray, planes[i])[1] < 0) =>
                    /\ frame.hits[i].intersection
                           = Some(PointAt(ray, DistanceTo(ray, planes[i])))
                    /\ Len(frame.hits[i].spawn) = 1

\* C3, amended: for a ray not parallel to the plane, no intersection point is
\* produced and no marker is spawned when t <= 0 (the plane behind the ray's
\* origin, or through it); when t > 0 (beyond f32::EPSILON) the point
\* origin + t*dir is produced, classified and marked.
C3_OnlyInFront ==
    frame.ray # None =>
        /\ Len(frame.hits) = Len(planes)
        /\ \A i \in 1..Len(planes) :
            LET ray == Unwrap(frame.ray)
                h == frame.hits[i]
            IN  ~Parallel(ray, planes[i]) =>
                    LET t == DistanceTo(ray, planes[i])
                    IN  /\ t[1] <= 0 => h.intersection = None /\ h.spawn = <<>>
                        /\ (t[1] > 0 /\ t[2] \div t[1] < 2 ^ 23) =>
                               /\ h.intersection = Some(PointAt(ray, t))
                               /\ Len(h.spawn) = 1
                               /\ h.spawn[1].transform.translation = PointAt(ray, t)
                               /\ h.local # None

\* a click with one plane behind the ray's origin (unmarked) and one in front
\* of it (marked)
C3_Witness ==
    /\ RayCast
    /\ \E i, j \in 1..Len(planes) :
        /\ ~Parallel(Unwrap(frame.ray), planes[i])
        /\ DistanceTo(Unwrap(frame.ray), planes[i])[1] < 0
        /\ frame.hits[i].spawn = <<>>
        /\ ~Parallel(Unwrap(frame.ray), planes[j])
        /\ DistanceTo(Unwrap(frame.ray), planes[j])[1] > 0
        /\ Len(frame.hits[j].spawn) = 1

\* the frame has a left click
LeftClick == "Left" \in mouse.just_pressed

\* C4, as claimed: on a left-click frame without a window, without a main
\* camera or without a valid cursor position my_cursor_system does nothing and
\* does not panic.
C4_SilentWithoutWindowOrCamera ==
    (/\ pc = "PostUpdate"
     /\ LeftClick
     /\ \/ window = None
        \/ camera = None
        \/ Unwrap(window).cursor = None
        \/ ~Unwrap(camera).computed)
        => (~panicked /\ frame.ray = None /\ frame.hits = <<>>)

\* C4, amended: on a left-click frame with a window and a main camera but no
\* valid cursor position (the cursor outside the window, or the camera unable
\* to map it to a ray) my_cursor_system does nothing and does not panic; when
\* the window or the main camera is absent Query::single panics: still no ray
\* is computed, no marker is spawned and the entity store is unchanged.
C4_SilentOrPanic ==
    [][ (CursorSystemStep /\ LeftClick) =>
            IF window = None \/ camera = None
            THEN /\ panicked'
                 /\ frame'.ray = None
                 /\ UNCHANGED <<markers, stdout, planes, light, camera, window>>
            ELSE (Unwrap(window).cursor = None \/ ~Unwrap(camera).computed) =>
                    /\ ~panicked'
                    /\ frame'.ray = None
                    /\ UNCHANGED <<markers, stdout, planes, light, camera, window>>
      ]_vars

\* a left click with the cursor outside the window: the system ran, cast no
\* ray and did not panic
C4_Witness ==
    /\ pc = "PostUpdate"
    /\ LeftClick
    /\ window # None /\ camera # None
    /\ Unwrap(camera).computed
    /\ Unwrap(window).cursor = None
    /\ frame.ran /\ frame.ray = None
    /\ ~panicked


Cross(a, b) ==
    <<RSub(RMul(a[2], b[3]), RMul(a[3], b[2])),
      RSub(RMul(a[3], b[1]), RMul(a[1], b[3])),
      RSub(RMul(a[1], b[2]), RMul(a[2], b[1]))>>

\* point lies on the ray, ahead of its origin
OnRay(point, ray) ==
    /\ Cross(VSub(point, ray.origin), ray.direction) = VecZERO
    /\ dot(VSub(point, ray.origin), ray.direction)[1] > 0

InsideOf(point, p) == AtMostHalf(UOf(point, p)) /\ AtMostHalf(VOf(point, p))

\* the colours (0.1, 0.8, 0.2) and (0.8, 0.1, 0.2)
GreenRgb == <<<<1, 10>>, <<4, 5>>, <<1, 5>>>>
RedRgb == <<<<4, 5>>, <<1, 10>>, <<1, 5>>>>

\* C5: every marker is an unrotated cube of size 0.1 placed exactly at the
\* point where a ray of the camera meets the plane of one of the planes, and it
\* is green if that point is within that plane's bounds and red otherwise; the
\* markers of the latest click sit at the intersection points computed in it.
C5_MarkerAtPointColouredByBounds ==
    /\ \A k \in 1..Len(markers) :
        LET m == markers[k]
            point == m.transform.translation
        IN  /\ m.cube = <<1, 10>>
            /\ m.transform.rotation = Identity
            /\ m.material \in {GreenRgb, RedRgb}
            /\ camera # None
            /\ \E c \in CursorPositions, i \in 1..Len(planes) :
                /\ OnRay(point, Unwrap(camera).rays[c])
                /\ OnPlaneOf(point, planes[i])
                /\ m.material = GreenRgb <=> InsideOf(point, planes[i])
    /\ frame.ray # None =>
        \A i \in 1..Len(frame.hits) :
            LET h == frame.hits[i]
            IN  /\ h.intersection = None <=> h.spawn = <<>>
                /\ h.intersection # None =>
                    /\ h.spawn[1].transform.translation = Unwrap(h.intersection)
                    /\ OnRay(Unwrap(h.intersection), Unwrap(frame.ray))
                    /\ OnPlaneOf(Unwrap(h.intersection), planes[i])
                    /\ h.spawn[1].material = GreenRgb
                           <=> InsideOf(Unwrap(h.intersection), planes[i])

\* markers of both colours have been spawned
C5_Witness ==
    /\ \E k \in 1..Len(markers) : markers[k].material = GreenRgb
    /\ \E k \in 1..Len(markers) : markers[k].material = RedRgb

\* the ray meets the plane of p ahead of its origin
Meets(ray, p) == ~Parallel(ray, p) /\ DistanceTo(ray, p)[1] > 0

\* C6: a left click that produces a ray adds exactly one marker for each plane
\* the ray intersects, at the intersection point, and no other marker; a run
\* that produces no ray adds none; so the markers number at most one per plane
\* per click (at most 2 per click in the demo scene).
C6_OneMarkerPerPlanePerClick ==
    [][ CursorSystemStep =>
            IF frame'.ray = None
            THEN markers' = markers
            ELSE LET ray == Unwrap(frame'.ray)
                     met == {i \in 1..Len(planes) : Meets(ray, planes[i])}
                 IN  /\ Len(markers') - Len(markers) = Cardinality(met)
                     /\ Cardinality(met) <= Len(planes)
                     /\ \A i \in met :
                            Cardinality({k \in NewMarkers :
                                markers'[k].transform.translation
                                    = PointAt(ray, DistanceTo(ray, planes[i]))}) = 1
                     /\ Len(markers') <= Len(planes) * clicks'
      ]_vars

\* two clicks, each of which marked both planes
C6_Witness ==
    /\ clicks = 2
    /\ Len(planes) = 2
    /\ Len(markers) = 4
    /\ RayCast
    /\ \A i \in 1..2 : Len(frame.hits[i].spawn) = 1

\* C7: in a frame without a left-button just-pressed event (no input, another
\* button, or the left button held from an earlier frame) my_cursor_system
\* returns at once and spawns nothing; in a just-pressed frame it runs the hit
\* test once, over each plane once.
C7_OnlyOnJustPressed ==
    [][ CursorSystemStep =>
            IF "Left" \notin mouse.just_pressed
            THEN /\ ~frame'.ran
                 /\ frame'.hits = <<>>
                 /\ UNCHANGED <<markers, stdout, panicked>>
            ELSE /\ frame'.ran
                 /\ frame'.ray # None => Len(frame'.hits) = Len(planes)
                 /\ Len(markers') - Len(markers) <= Len(planes)
      ]_vars

\* a frame in which the left button is held from an earlier click, the cursor
\* is over the window, and nothing was run
C7_Witness ==
    /\ pc = "PostUpdate"
    /\ "Left" \in mouse.pressed
    /\ "Left" \notin mouse.just_pressed
    /\ window # None /\ Unwrap(window).cursor # None
    /\ camera # None /\ Unwrap(camera).computed
    /\ markers # <<>>
    /\ ~frame.ran

IsPrefix(a, b) == Len(a) <= Len(b) /\ SubSeq(b, 1, Len(a)) = a

\* C8: no step changes the planes or the light, moves the camera, or removes,
\* moves or recolours a marker: the markers only grow; and a run of
\* my_cursor_system changes nothing of the entity store but the markers.
C8_OnlyMarkersAdded ==
    [][ /\ planes' = planes
        /\ light' = light
        /\ IsPrefix(markers, markers')
        /\ (camera = None) = (camera' = None)
        /\ camera # None =>
            /\ Unwrap(camera').translation = Unwrap(camera).translation
            /\ Unwrap(camera').rays = Unwrap(camera).rays
        /\ CursorSystemStep => UNCHANGED <<camera, window, mouse>>
      ]_vars

\* the markers of a first click are still there, unchanged in front, after a
\* second click that marked other points
C8_Witness ==
    /\ Len(markers) = 4
    /\ markers[1] # markers[3]
    /\ planes = <<Plane1, Plane2>>
    /\ pc = "PreUpdate"

\* |100 * q - n| <= 1/2: n is q in hundredths, rounded
RoundsTo(q, n) == AtMostHalf(RSub(RMul(Rat(100, 1), q), Rat(n, 1)))

\* C9: for every plane, whatever its rotation, the (u, v) computed for an
\* intersection point P give P back as plane_origin + (u*size)*X_axis +
\* (v*size)*Z_axis on the plane's own rotated axes; and for an in-bounds hit
\* the coordinates reported are (u + 0.5, v + 0.5), within [0,1] x [0,1].
C9_ProjectionRoundTrip ==
    frame.ray # None =>
        \A i \in 1..Len(frame.hits) :
            LET h == frame.hits[i]
                p == planes[i]
            IN  h.intersection # None =>
                    LET u == Unwrap(h.local)[1]
                        v == Unwrap(h.local)[2]
                        a == RMul(u, p.plane.size)
                        b == RMul(v, p.plane.size)
                    IN  /\ Unwrap(h.intersection)
                               = VAdd(OriginOf(p),
                                      VAdd(VScale(XAxisOf(p), a), VScale(ZAxisOf(p), b)))
                        /\ h.within =>
                            /\ Len(h.print) = 1
                            /\ h.print[1].entity = p.entity
                            /\ h.print[1].x \in 0..100 /\ h.print[1].y \in 0..100
                            /\ RoundsTo(RAdd(u, Half), h.print[1].x)
                            /\ RoundsTo(RAdd(v, Half), h.print[1].y)

\* an in-bounds hit, off centre, on a plane that is rotated
C9_Witness ==
    /\ RayCast
    /\ \E i \in 1..Len(planes) :
        /\ planes[i].transform.rotation # Identity
        /\ frame.hits[i].within
        /\ Unwrap(frame.hits[i].local)[1] # Zero
        /\ Unwrap(frame.hits[i].local)[2] # Zero
        /\ Len(frame.hits[i].print) = 1

\* C10: for a plane centred at the origin with normal (0,1,0) and side s, and a
\* ray straight down from (x, h, z), h > 0: the intersection point is (x, 0, z),
\* (u, v) = (x/s, z/s), the hit is within bounds iff |x| <= s/2 and |z| <= s/2,
\* and an in-bounds hit reports (x/s + 0.5, z/s + 0.5); with s = 2, the origin
\* (0,5,0) gives the point (0,0,0), reported as 0.50,0.50, within bounds, and
\* the origin (3,5,3) is outside bounds.
C10_StraightDown ==
    frame.ray # None =>
        \A i \in 1..Len(frame.hits) :
            LET ray == Unwrap(frame.ray)
                h == frame.hits[i]
                p == planes[i]
                s == p.plane.size
                x == ray.origin[1]
                z == ray.origin[3]
            IN  (/\ p.transform = [translation |-> VecZERO, rotation |-> Identity]
                 /\ ray.direction = <<Zero, <<-1, 1>>, Zero>>
                 /\ ray.origin[2][1] > 0) =>
                    /\ h.intersection = Some(<<x, Zero, z>>)
                    /\ h.local = Some(<<RDiv(x, s), RDiv(z, s)>>)
                    /\ h.within <=> (RLe(RMul(<<2, 1>>, RAbs(x)), s)
                                     /\ RLe(RMul(<<2, 1>>, RAbs(z)), s))
                    /\ Len(h.spawn) = 1
                    /\ h.spawn[1].material = (IF h.within THEN GreenRgb ELSE RedRgb)
                    /\ h.within =>
                        /\ Len(h.print) = 1
                        /\ RoundsTo(RAdd(RDiv(x, s), Half), h.print[1].x)
                        /\ RoundsTo(RAdd(RDiv(z, s), Half), h.print[1].y)
                    /\ (s = <<2, 1>> /\ ray.origin = Vec3I(0, 5, 0, 1)) =>
                        /\ h.intersection = Some(VecZERO)
                        /\ h.within
                        /\ h.print = <<[entity |-> p.entity, x |-> 50, y |-> 50]>>
                    /\ (s = <<2, 1>> /\ ray.origin = Vec3I(3, 5, 3, 1)) =>
                        /\ ~h.within
                        /\ h.print = <<>>

\* the plane of side 2 at the origin, clicked from (0,5,0) and then from
\* (3,5,3): a green marker at the centre, then a red one at (3,0,3)
C10_Witness ==
    /\ RayCast
    /\ planes[1].plane.size = <<2, 1>>
    /\ planes[1].transform = [translation |-> VecZERO, rotation |-> Identity]
    /\ Unwrap(frame.ray) = Ray(Vec3I(3, 5, 3, 1), Vec3I(0, -1, 0, 1))
    /\ ~frame.hits[1].within
    /\ \E k \in 1..Len(markers) :
        /\ markers[k].material = GreenRgb
        /\ markers[k].transform.translation = VecZERO
    /\ markers[Len(markers)].material = RedRgb
    /\ markers[Len(markers)].transform.translation = Vec3I(3, 0, 3, 1)

=============================================================================
